---- MODULE Spec2Model ----
(***************************************************************************)
(* rtl_map / rtl_fftx: acquisition-to-spectrum pipeline.                   *)
(*                                                                         *)
(* One process, one thread.  main() runs the start-up steps and then sits  *)
(* in the driver's streaming loop, which calls async_read_callback for     *)
(* every completed buffer.  A registered signal interrupts whatever is     *)
(* running and runs sig_handler -> do_exit on top of it; a different       *)
(* signal may interrupt a running handler (sa_mask is empty), the same     *)
(* signal may not (no SA_NODEFER).  Nothing ever resumes below a handler,  *)
(* because do_exit ends in exit(0).  The four signals share one handler,   *)
(* so the stack of handlers keeps each handler's position and not its      *)
(* signal: a further signal can come in as long as fewer than four         *)
(* handlers are running.                                                   *)
(*                                                                         *)
(* Numbers: complex samples are pairs <<re, im>> in hundredths, so that    *)
(* the offset 127.34 of rtl_map.c is the integer 12734 and the arithmetic  *)
(* of the transform is exact.  The FFT size is scaled from 512 to 4, the   *)
(* largest size whose twiddle factors (1, -j, -1, j) are exact.            *)
(***************************************************************************)
EXTENDS Integers, Sequences, FiniteSets, TLC

\* ------------------------------------------------------------------ bounds
\* Most batches the sample source delivers in one run.
MaxBatches == 2
\* Most signals delivered in one run.
MaxSignals == 1

\* --------------------------------------------------------------- constants
\* NUM_READ / n_read: sample count and FFT size (512 in the source).
n_read == 4
INT_MAX == 2147483647
\* Hundredths per unit.
Scale == 100

Variants == {"rtl_map", "rtl_fftx"}
\* sigaction() is called for these four.
Signals == {"SIGINT", "SIGTERM", "SIGQUIT", "SIGPIPE"}
\* -n values tried (atoi of anything non-numeric is 0); INT_MAX is the default.
NumReadVals == {-1, 0, 1, 2, INT_MAX}
\* argv[optind]: absent, the standard-output sentinel, a real path.
Filenames == {"NULL", "-", "out.txt"}
\* How vfprintf("%d\t%f\n", double, int) can come out, by the way the
\* build passes varargs: in registers, %d finds the int and %f the double;
\* on the stack, both conversions read the wrong bytes.
Abis == {"reg", "stack"}

\* 2N-byte seeds of the batches the source delivers; a batch of the
\* requested length repeats its seed.
Seeds ==
  { <<127, 127, 137, 117, 107, 147, 127, 127>>,
    <<127, 127, 127, 127, 127, 127, 127, 127>> }

\* What a fresh fftw_malloc block may hold in an element nobody wrote.
Uninit == { <<0, 0>>, <<250, -100>> }
\* The blocks fftw_malloc may return: every element the same leftover.
Blocks == {[k \in 0..(n_read - 1) |-> u] : u \in Uninit}

VARIABLES
  variant,        \* which of the two programs runs
  pc,             \* position of main / the callback
  handlers,       \* positions of the running signal handlers, innermost last
  halt,           \* "running", "exited", "crashed"
  exit_status,    \* status given to exit(), -1 while running
  exit_by,        \* who called exit(): "none", "usage", "preflight", "callback", "signal"
  _cont_read, _num_read, _use_gnuplot, _mag_graph, _filename, _write_file,
  dev,            \* "NULL" or "open"
  async_status,   \* driver side of dev: "INACTIVE", "RUNNING", "CANCELING"
  gnuplotPipe,    \* "NULL", "open", "closed"
  file,           \* "NULL", "stdout", "open", "closed"
  requests,       \* lengths of the rtlsdr_read_async calls, in order
  buf,            \* batch handed to the callback (0-based function)
  in, out,        \* transform arrays (0-based functions), <<>> when not allocated
  in_written,     \* elements of in the fill loop has assigned
  n,              \* static int n
  bin_i,          \* loop variable of the emit loop
  out_r, out_i, amp, db,
  sample_bin,     \* the id fields of Bin sample_bin[]; val is a copy of db
  read_count,
  plot_out,       \* everything written to the gnuplot pipe
  file_out,       \* lines written to the opened file
  stdout_out,     \* lines written to standard output
  fft_calls,      \* calls of create_fft
  transforms,     \* completed calls of create_fft
  cancels, cancels_null, plot_closes, file_closes, stdout_closes,
  preflight_fail, \* the pre-flight failures that have happened
  sig_count,      \* signals delivered
  ub              \* undefined operations performed

cfgvars == <<_cont_read, _num_read, _use_gnuplot, _mag_graph, _filename>>
resvars == <<dev, async_status, gnuplotPipe, file>>
fftvars == <<buf, in, out, in_written, n, bin_i, out_r, out_i, amp, db, sample_bin>>
sinkvars == <<plot_out, file_out, stdout_out>>
closevars == <<cancels, cancels_null, plot_closes, file_closes, stdout_closes>>
vars == <<variant, pc, handlers, halt, exit_status, exit_by,
          _cont_read, _num_read, _use_gnuplot, _mag_graph, _filename, _write_file,
          dev, async_status, gnuplotPipe, file, requests,
          buf, in, out, in_written, n, bin_i, out_r, out_i, amp, db,
          sample_bin, read_count, plot_out, file_out, stdout_out,
          fft_calls, transforms,
          cancels, cancels_null, plot_closes, file_closes, stdout_closes,
          preflight_fail, sig_count, ub>>

\* A float that has not been computed yet.
NoFloat == [cls |-> "none", sq |-> 0, log |-> FALSE]

Init ==
  /\ variant \in Variants
  /\ pc = "parse_args"
  /\ handlers = <<>>
  /\ halt = "running"
  /\ exit_status = -1
  /\ exit_by = "none"
  /\ _cont_read = 0
  /\ _num_read = INT_MAX
  /\ _use_gnuplot = 1
  /\ _mag_graph = 0
  /\ _filename = "NULL"
  /\ _write_file = 0
  /\ dev = "NULL"
  /\ async_status = "INACTIVE"
  /\ gnuplotPipe = "NULL"
  /\ file = "NULL"
  /\ requests = <<>>
  /\ buf = <<>>
  /\ in = <<>>
  /\ out = <<>>
  /\ in_written = {}
  /\ n = 0
  /\ bin_i = 0
  /\ out_r = 0
  /\ out_i = 0
  /\ amp = NoFloat
  /\ db = NoFloat
  /\ sample_bin = [k \in 0..(n_read - 1) |-> [id |-> 0]]
  /\ read_count = 0
  /\ plot_out = <<>>
  /\ file_out = <<>>
  /\ stdout_out = <<>>
  /\ fft_calls = 0
  /\ transforms = 0
  /\ cancels = 0
  /\ cancels_null = 0
  /\ plot_closes = 0
  /\ file_closes = 0
  /\ stdout_closes = 0
  /\ preflight_fail = {}
  /\ sig_count = 0
  /\ ub = {}

\* ----------------------------------------------------------------- helpers
\* main and the callback run only while no handler is on top of them.
MainRuns == halt = "running" /\ handlers = <<>>

\* exit(status)
Exit(status, by) ==
  /\ halt' = "exited"
  /\ exit_status' = status
  /\ exit_by' = by

NoExit == UNCHANGED <<halt, exit_status, exit_by>>

\* ---------------------------------------------------------------- start-up
\* parse_args: getopt loop, then the mandatory -f check and the file name.
\* f = 0 stands for a missing -f.  rtl_fftx has no -n.
parse_args(f, c, k, d, m, fname) ==
  /\ MainRuns
  /\ pc = "parse_args"
  /\ _cont_read' = c
  /\ _num_read' = IF variant = "rtl_map" THEN k ELSE _num_read
  /\ _use_gnuplot' = d
  /\ _mag_graph' = m
  /\ IF f = 0
       THEN /\ Exit(0, "usage")
            /\ UNCHANGED <<pc, _filename>>
       ELSE /\ NoExit
            /\ _filename' = fname
            /\ pc' = "register_signals"
  /\ UNCHANGED <<variant, handlers, _write_file, resvars, requests, fftvars,
                 read_count, sinkvars, fft_calls, transforms, closevars,
                 preflight_fail, sig_count, ub>>

\* register_signals: from here on the four signals run sig_handler.
register_signals ==
  /\ MainRuns
  /\ pc = "register_signals"
  /\ pc' = "configure_gnuplot"
  /\ UNCHANGED <<variant, handlers, halt, exit_status, exit_by, cfgvars,
                 _write_file, resvars, requests, fftvars, read_count, sinkvars,
                 fft_calls, transforms, closevars, preflight_fail, sig_count, ub>>

Registered == pc \notin {"parse_args", "register_signals"}

\* One line on the gnuplot pipe.  val and idx are the arguments handed to
\* gnuplot_exec for a data line.
PlotLine(kind) == [kind |-> kind, val |-> "", idx |-> 0]

\* The title, the two labels and the xtics.
GnuplotSetup ==
  <<PlotLine("set"), PlotLine("set"), PlotLine("set"), PlotLine("set")>>

\* configure_gnuplot: popen_ok is whether popen returned a pipe.
configure_gnuplot(popen_ok) ==
  /\ MainRuns
  /\ pc = "configure_gnuplot"
  /\ IF _use_gnuplot = 0
       THEN /\ pc' = "configure_rtlsdr"
            /\ NoExit
            /\ UNCHANGED <<gnuplotPipe, plot_out, preflight_fail>>
       ELSE IF popen_ok
         THEN /\ gnuplotPipe' = "open"
              /\ plot_out' = plot_out \o GnuplotSetup
              /\ pc' = "configure_rtlsdr"
              /\ NoExit
              /\ UNCHANGED preflight_fail
         ELSE /\ preflight_fail' = preflight_fail \cup {"plot"}
              /\ Exit(1, "preflight")
              /\ UNCHANGED <<pc, gnuplotPipe, plot_out>>
  /\ UNCHANGED <<variant, handlers, cfgvars, _write_file, dev, async_status,
                 file, requests, fftvars, read_count, file_out, stdout_out,
                 fft_calls, transforms, closevars, sig_count, ub>>

RtlsdrOutcomes == {"no_device", "open_fail", "reset_fail", "ok"}

\* What main does after configure_rtlsdr found rtlsdr_reset_buffer failing:
\* rtl_map.c returns 1 and main ignores it, rtl_fftx.c only logs.
AfterResetFailure == "open_file"

\* configure_rtlsdr: device count, open, gain and tuning, buffer reset.
configure_rtlsdr(outcome) ==
  /\ MainRuns
  /\ pc = "configure_rtlsdr"
  /\ CASE outcome = "no_device" ->
            /\ preflight_fail' = preflight_fail \cup {"no_device"}
            /\ Exit(1, "preflight")
            /\ UNCHANGED <<pc, dev>>
       [] outcome = "open_fail" ->
            /\ preflight_fail' = preflight_fail \cup {"open"}
            /\ Exit(1, "preflight")
            /\ UNCHANGED <<pc, dev>>
       [] outcome = "reset_fail" ->
            /\ dev' = "open"
            /\ preflight_fail' = preflight_fail \cup {"reset"}
            /\ pc' = AfterResetFailure
            /\ NoExit
       [] outcome = "ok" ->
            /\ dev' = "open"
            /\ pc' = "open_file"
            /\ NoExit
            /\ UNCHANGED preflight_fail
  /\ UNCHANGED <<variant, handlers, cfgvars, _write_file, async_status,
                 gnuplotPipe, file, requests, fftvars, read_count, sinkvars,
                 fft_calls, transforms, closevars, sig_count, ub>>

\* open_file: fopen_ok is whether fopen returned a stream.
open_file(fopen_ok) ==
  /\ MainRuns
  /\ pc = "open_file"
  /\ IF _filename # "NULL"
       THEN /\ _write_file' = 1
            /\ IF _filename = "-"
                 THEN /\ file' = "stdout"
                      /\ pc' = "read_async"
                      /\ NoExit
                      /\ UNCHANGED preflight_fail
                 ELSE IF fopen_ok
                   THEN /\ file' = "open"
                        /\ pc' = "read_async"
                        /\ NoExit
                        /\ UNCHANGED preflight_fail
                   ELSE /\ preflight_fail' = preflight_fail \cup {"file"}
                        /\ Exit(1, "preflight")
                        /\ UNCHANGED <<pc, file>>
       ELSE /\ pc' = "read_async"
            /\ NoExit
            /\ UNCHANGED <<_write_file, file, preflight_fail>>
  /\ UNCHANGED <<variant, handlers, cfgvars, dev, async_status, gnuplotPipe,
                 requests, fftvars, read_count, sinkvars, fft_calls, transforms,
                 closevars, sig_count, ub>>

\* Length asked of rtlsdr_read_async: n_read * n_read, pow(n_read, 2).
RequestLen == n_read * n_read

\* main: rtlsdr_read_async(dev, async_read_callback, NULL, 0, n_read * n_read).
\* The call does not return while the driver streams.
main_read_async ==
  /\ MainRuns
  /\ pc = "read_async"
  /\ requests' = Append(requests, RequestLen)
  /\ async_status' = "RUNNING"
  /\ pc' = "streaming"
  /\ UNCHANGED <<variant, handlers, halt, exit_status, exit_by, cfgvars,
                 _write_file, dev, gnuplotPipe, file, fftvars, read_count,
                 sinkvars, fft_calls, transforms, closevars, preflight_fail,
                 sig_count, ub>>

\* ---------------------------------------------------------- sample source
\* A batch of len bytes: the seed repeated, indexed from 0 like uint8_t *buf.
Batch(seed, len) == [k \in 0..(len - 1) |-> seed[(k % Len(seed)) + 1]]

\* The driver calls async_read_callback for a completed buffer of the
\* length given to the rtlsdr_read_async call that started the streaming.
\* The callback starts with create_fft(n_read, n_buf).
deliver(seed) ==
  /\ MainRuns
  /\ pc = "streaming"
  /\ async_status = "RUNNING"
  /\ fft_calls < MaxBatches
  /\ buf' = Batch(seed, requests[1])
  /\ pc' = "create_fft"
  /\ UNCHANGED <<variant, handlers, halt, exit_status, exit_by, cfgvars,
                 _write_file, resvars, requests, in, out, in_written, n, bin_i,
                 out_r, out_i, amp, db, sample_bin, read_count, sinkvars,
                 fft_calls, transforms, closevars, preflight_fail, sig_count, ub>>

\* ------------------------------------------------------------- create_fft
\* 127.34 in rtl_map.c, 127 in rtl_fftx.c, in hundredths.
Offset == IF variant = "rtl_map" THEN 12734 ELSE 12700

\* (buf[n]-127.34) + (buf[n+1]-127.34) * I
Sample(b, nn) == <<Scale * b[nn] - Offset, Scale * b[nn + 1] - Offset>>

\* n = 0; for (int i=0; i<sample_c; i+=2){ in[i] = ...; n++; }
\* Gives the array, the final n and the elements assigned.
RECURSIVE FillLoop(_, _, _, _, _, _)
FillLoop(arr, b, sample_c, i, nn, written) ==
  IF i < sample_c
    THEN FillLoop([arr EXCEPT ![i] = Sample(b, nn)], b, sample_c,
                  i + 2, nn + 1, written \cup {i})
    ELSE [arr |-> arr, n |-> nn, written |-> written]

\* z * (-j)^p
Rot(z, p) ==
  CASE p = 0 -> z
    [] p = 1 -> <<z[2], -z[1]>>
    [] p = 2 -> <<-z[1], -z[2]>>
    [] p = 3 -> <<-z[2], z[1]>>

\* z * exp(-2 pi j m k / sample_c), for sample_c dividing 4
Twiddled(z, m, k, sample_c) == Rot(z, (m * k * (4 \div sample_c)) % 4)

RECURSIVE DftSum(_, _, _, _)
DftSum(x, k, m, sample_c) ==
  IF m = sample_c THEN <<0, 0>>
  ELSE LET t == Twiddled(x[m], m, k, sample_c)
           r == DftSum(x, k, m + 1, sample_c)
       IN  <<t[1] + r[1], t[2] + r[2]>>

\* fftw_execute of the FFTW_FORWARD plan of size sample_c from in to out
fftw_execute(x, sample_c) == [k \in 0..(sample_c - 1) |-> DftSum(x, k, 0, sample_c)]

Abs(x) == IF x < 0 THEN -x ELSE x

\* creal(out[i]) * creal(out[i]), a double, assigned to an int: the
\* fraction is cut off.  h is in hundredths; h*h \div 10000 is computed
\* from the two halves of h.  With n_read bytes in 0..255 the result stays
\* far inside the int range at this size.
SquareTrunc(h) ==
  LET a == Abs(h) \div Scale
      b == Abs(h) % Scale
  IN  a * a + (2 * a * b * Scale + b * b) \div (Scale * Scale)

\* amp = sqrt(sum): the float sqrt(sq), NaN for a negative argument.
Sqrt(sum) ==
  [cls |-> IF sum < 0 THEN "nan" ELSE "finite", sq |-> sum, log |-> FALSE]

\* 10 * log10(amp): -inf for amp = 0, NaN for NaN.
Log10x10(a) ==
  [cls |-> IF a.cls = "nan" THEN "nan" ELSE IF a.sq = 0 THEN "-inf" ELSE "finite",
   sq |-> a.sq, log |-> TRUE]

\* if (!_mag_graph) db = 10 * log10(amp); else db = amp;
Db(a, mag_graph) == IF mag_graph = 0 THEN Log10x10(a) ELSE a

\* A bin index that starts at 0.
BinIndexFromZero(i) == i

\* The index printed with a bin: i+1
BinIndex(i) == i + 1

\* fprintf(file, "%d\t%f\n", i+1, db): the index, and the value as %f
\* prints it: a number, "-inf" or "nan".
FileLine(i, d) == [idx |-> BinIndex(i), val |-> d.cls]

\* gnuplot_exec("%d\t%f\n", db, i+1): the line as the arguments handed
\* over.
DataLine(i, d) == [kind |-> "data", val |-> d.cls, idx |-> BinIndex(i)]

\* The arguments are a double and an int, the conversions an int and a
\* double: the text of a data line is one of these, by the build.  It goes
\* to gnuplot and never comes back into the program.
DataText(l) ==
  {IF a = "reg" THEN "index_tab_value" ELSE "garbage" : a \in Abis}

\* An end-of-data token that is never flushed.
PlotTrailerNoFlush == <<PlotLine("e")>>

\* gnuplot_exec("e\n"); fflush(gnuplotPipe);
PlotTrailer == <<PlotLine("e"), PlotLine("flush")>>

\* Allocation, plan, fill loop, fftw_execute and the plot directive.
\* block is what fftw_malloc returned for in.
create_fft_begin(block) ==
  /\ MainRuns
  /\ pc = "create_fft"
  /\ fft_calls' = fft_calls + 1
  /\ LET f == FillLoop(block, buf, n_read, 0, 0, {})
     IN  /\ in' = f.arr
         /\ n' = f.n
         /\ in_written' = f.written
         /\ out' = fftw_execute(f.arr, n_read)
  /\ plot_out' = IF _use_gnuplot # 0 THEN Append(plot_out, PlotLine("plot"))
                 ELSE plot_out
  /\ bin_i' = 0
  /\ pc' = "fft_loop"
  /\ UNCHANGED <<variant, handlers, halt, exit_status, exit_by, cfgvars,
                 _write_file, resvars, requests, buf, out_r, out_i, amp, db,
                 sample_bin, read_count, file_out, stdout_out, transforms,
                 closevars, preflight_fail, sig_count, ub>>

\* An emit loop that steps like the fill loop.
NextBinByTwo(i) == i + 2

\* i++ of the emit loop
NextBin(i) == i + 1

\* One round of for (int i=0; i < sample_c; i++): magnitude, level, the
\* file line, the plot line, sample_bin.
create_fft_bin ==
  /\ MainRuns
  /\ pc = "fft_loop"
  /\ bin_i < n_read
  /\ LET r == SquareTrunc(out[bin_i][1])
         q == SquareTrunc(out[bin_i][2])
         a == Sqrt(r + q)
         d == Db(a, _mag_graph)
     IN      /\ out_r' = r
             /\ out_i' = q
             /\ amp' = a
             /\ db' = d
             /\ IF _write_file # 0 /\ file = "stdout"
                  THEN stdout_out' = Append(stdout_out, FileLine(bin_i, d))
                  ELSE UNCHANGED stdout_out
             /\ IF _write_file # 0 /\ file # "stdout"
                  THEN file_out' = Append(file_out, FileLine(bin_i, d))
                  ELSE UNCHANGED file_out
             /\ IF _use_gnuplot # 0
                  THEN /\ plot_out' = Append(plot_out, DataLine(bin_i, d))
                       /\ ub' = ub \cup {"gnuplot_exec_format"}
                  ELSE UNCHANGED <<plot_out, ub>>
             /\ sample_bin' = [sample_bin EXCEPT ![bin_i] = [id |-> bin_i]]
  /\ bin_i' = NextBin(bin_i)
  /\ UNCHANGED <<variant, pc, handlers, halt, exit_status, exit_by, cfgvars,
                 _write_file, resvars, requests, buf, in, out, in_written, n,
                 read_count, fft_calls, transforms, closevars, preflight_fail,
                 sig_count>>

\* After the loop: end-of-data and flush, destroy the plan, free in and
\* out, read_count++ (rtl_map.c only).
create_fft_end ==
  /\ MainRuns
  /\ pc = "fft_loop"
  /\ bin_i >= n_read
  /\ plot_out' = IF _use_gnuplot # 0 THEN plot_out \o PlotTrailer ELSE plot_out
  /\ in' = <<>>
  /\ out' = <<>>
  /\ read_count' = IF variant = "rtl_map" THEN read_count + 1 ELSE read_count
  /\ transforms' = transforms + 1
  /\ pc' = "cb_check"
  /\ UNCHANGED <<variant, handlers, halt, exit_status, exit_by, cfgvars,
                 _write_file, resvars, requests, buf, in_written, n, bin_i,
                 out_r, out_i, amp, db, sample_bin, file_out, stdout_out,
                 fft_calls, closevars, preflight_fail, sig_count, ub>>

\* ---------------------------------------------------- async_read_callback
\* A limit test that lets one batch too many through.
ContinueReadingOffByOne ==
  IF variant = "rtl_map" THEN _cont_read # 0 /\ read_count <= _num_read
  ELSE _cont_read # 0

\* A limit test that forgets the continuous flag.
ContinueReadingNoFlag ==
  IF variant = "rtl_map" THEN read_count < _num_read
  ELSE _cont_read # 0

\* A limit test that takes a limit of zero or less for no limit.
ContinueReadingZeroUnlimited ==
  IF variant = "rtl_map"
    THEN _cont_read # 0 /\ (_num_read <= 0 \/ read_count < _num_read)
    ELSE _cont_read # 0

\* rtl_map.c: if (_cont_read && read_count < _num_read); rtl_fftx.c: if (_cont_read)
ContinueReading ==
  IF variant = "rtl_map" THEN _cont_read # 0 /\ read_count < _num_read
  ELSE _cont_read # 0

\* A callback that issues the next request without pacing first.
AfterCheckNoWait == IF ContinueReading THEN "cb_read_async" ELSE "de_cancel"

\* Where the if of the callback goes: usleep first on the continuing
\* branch, do_exit on the other.
AfterCheck == IF ContinueReading THEN "cb_usleep" ELSE "de_cancel"

\* The branch after create_fft: pace and go on, or log and do_exit.
callback_check ==
  /\ MainRuns
  /\ pc = "cb_check"
  /\ pc' = AfterCheck
  /\ UNCHANGED <<variant, handlers, halt, exit_status, exit_by, cfgvars,
                 _write_file, resvars, requests, fftvars, read_count, sinkvars,
                 fft_calls, transforms, closevars, preflight_fail, sig_count, ub>>

\* usleep(1000*_refresh_rate).  In rtl_fftx.c the callback then returns to
\* the streaming loop, and its buffer argument is gone.
callback_usleep ==
  /\ MainRuns
  /\ pc = "cb_usleep"
  /\ pc' = IF variant = "rtl_map" THEN "cb_read_async" ELSE "streaming"
  /\ buf' = IF variant = "rtl_map" THEN buf ELSE <<>>
  /\ UNCHANGED <<variant, handlers, halt, exit_status, exit_by, cfgvars,
                 _write_file, resvars, requests, in, out, in_written, n, bin_i,
                 out_r, out_i, amp, db, sample_bin, read_count, sinkvars,
                 fft_calls, transforms, closevars, preflight_fail, sig_count, ub>>

\* rtl_map.c: rtlsdr_read_async(...) from inside the callback.  The device
\* is already streaming, so the call comes back and the callback returns
\* to the streaming loop; its buffer argument is gone.
callback_read_async ==
  /\ MainRuns
  /\ pc = "cb_read_async"
  /\ requests' = Append(requests, RequestLen)
  /\ pc' = "streaming"
  /\ buf' = <<>>
  /\ UNCHANGED <<variant, handlers, halt, exit_status, exit_by, cfgvars,
                 _write_file, resvars, in, out, in_written, n, bin_i,
                 out_r, out_i, amp, db, sample_bin, read_count, sinkvars,
                 fft_calls, transforms, closevars, preflight_fail, sig_count, ub>>

\* ---------------------------------------------------------------- do_exit
\* do_exit runs in the innermost handler, or in the callback when no
\* handler is running.
CtxPc == IF handlers # <<>> THEN handlers[Len(handlers)] ELSE pc

SetCtxPc(p) ==
  IF handlers # <<>>
    THEN /\ handlers' = [handlers EXCEPT ![Len(handlers)] = p]
         /\ UNCHANGED pc
    ELSE /\ pc' = p
         /\ UNCHANGED handlers

\* An undefined library call either brings the process down or comes back.
Undefined(crash) ==
  IF crash THEN /\ halt' = "crashed"
                /\ UNCHANGED <<exit_status, exit_by>>
  ELSE NoExit

\* rtlsdr_cancel_async(dev)
do_exit_cancel ==
  /\ halt = "running"
  /\ CtxPc = "de_cancel"
  /\ IF dev = "NULL"
       THEN /\ cancels_null' = cancels_null + 1
            /\ UNCHANGED <<cancels, async_status>>
       ELSE /\ cancels' = cancels + 1
            /\ async_status' = IF async_status = "RUNNING" THEN "CANCELING"
                               ELSE async_status
            /\ UNCHANGED cancels_null
  /\ SetCtxPc("de_pclose")
  /\ UNCHANGED <<variant, halt, exit_status, exit_by, cfgvars, _write_file,
                 dev, gnuplotPipe, file, requests, fftvars, read_count, sinkvars,
                 fft_calls, transforms, plot_closes, file_closes, stdout_closes,
                 preflight_fail, sig_count, ub>>

\* if(_use_gnuplot) pclose(gnuplotPipe);
do_exit_pclose(crash) ==
  /\ halt = "running"
  /\ CtxPc = "de_pclose"
  /\ IF _use_gnuplot = 0
       THEN /\ NoExit
            /\ UNCHANGED <<gnuplotPipe, plot_closes, ub>>
       ELSE CASE gnuplotPipe = "open" ->
                   /\ gnuplotPipe' = "closed"
                   /\ plot_closes' = plot_closes + 1
                   /\ NoExit
                   /\ UNCHANGED ub
              [] gnuplotPipe = "closed" ->
                   /\ plot_closes' = plot_closes + 1
                   /\ ub' = ub \cup {"pclose_closed"}
                   /\ Undefined(crash)
                   /\ UNCHANGED gnuplotPipe
              [] gnuplotPipe = "NULL" ->
                   /\ ub' = ub \cup {"pclose_null"}
                   /\ Undefined(crash)
                   /\ UNCHANGED <<gnuplotPipe, plot_closes>>
  /\ SetCtxPc("de_fclose")
  /\ UNCHANGED <<variant, cfgvars, _write_file, dev, async_status, file,
                 requests, fftvars, read_count, sinkvars, fft_calls, transforms,
                 cancels, cancels_null, file_closes, stdout_closes,
                 preflight_fail, sig_count>>

\* A test that forgets the standard-output sentinel.
ClosesFileAnyName == _filename # "NULL"

\* if(_filename != NULL && strcmp(_filename, "-"))
ClosesFile == _filename # "NULL" /\ _filename # "-"

\* if(_filename != NULL && strcmp(_filename, "-")) fclose(file);
do_exit_fclose(crash) ==
  /\ halt = "running"
  /\ CtxPc = "de_fclose"
  /\ IF ~ClosesFile
       THEN /\ NoExit
            /\ UNCHANGED <<file, file_closes, stdout_closes, ub>>
       ELSE CASE file = "open" ->
                   /\ file' = "closed"
                   /\ file_closes' = file_closes + 1
                   /\ NoExit
                   /\ UNCHANGED <<stdout_closes, ub>>
              [] file = "stdout" ->
                   /\ file' = "closed"
                   /\ stdout_closes' = stdout_closes + 1
                   /\ NoExit
                   /\ UNCHANGED <<file_closes, ub>>
              [] file = "closed" ->
                   /\ file_closes' = file_closes + 1
                   /\ ub' = ub \cup {"fclose_closed"}
                   /\ Undefined(crash)
                   /\ UNCHANGED <<file, stdout_closes>>
              [] file = "NULL" ->
                   /\ ub' = ub \cup {"fclose_null"}
                   /\ Undefined(crash)
                   /\ UNCHANGED <<file, file_closes, stdout_closes>>
  /\ SetCtxPc("de_exit")
  /\ UNCHANGED <<variant, cfgvars, _write_file, dev, async_status,
                 gnuplotPipe, requests, fftvars, read_count, sinkvars, fft_calls,
                 transforms, cancels, cancels_null, plot_closes,
                 preflight_fail, sig_count>>

\* exit(0);
do_exit_exit ==
  /\ halt = "running"
  /\ CtxPc = "de_exit"
  /\ Exit(0, IF handlers # <<>> THEN "signal" ELSE "callback")
  /\ UNCHANGED <<variant, pc, handlers, cfgvars, _write_file, resvars,
                 requests, fftvars, read_count, sinkvars, fft_calls, transforms,
                 closevars, preflight_fail, sig_count, ub>>

\* ---------------------------------------------------------------- signals
\* A signal whose handler is running is blocked until the handler returns:
\* one more can be delivered while some signal has no running handler.
Deliverable == Len(handlers) < Cardinality(Signals)

\* Delivery of a registered signal: sig_handler logs and calls do_exit.
sig_handler ==
  /\ halt = "running"
  /\ Registered
  /\ Deliverable
  /\ sig_count < MaxSignals
  /\ sig_count' = sig_count + 1
  /\ handlers' = Append(handlers, "de_cancel")
  /\ UNCHANGED <<variant, pc, halt, exit_status, exit_by, cfgvars,
                 _write_file, resvars, requests, fftvars, read_count, sinkvars,
                 fft_calls, transforms, closevars, preflight_fail, ub>>

\* -------------------------------------------------------------------- next
Next ==
  \/ \E f \in {0, 1}, c \in {0, 1}, k \in NumReadVals, d \in {0, 1},
        m \in {0, 1}, fname \in Filenames : parse_args(f, c, k, d, m, fname)
  \/ register_signals
  \/ \E ok \in BOOLEAN : configure_gnuplot(ok)
  \/ \E outcome \in RtlsdrOutcomes : configure_rtlsdr(outcome)
  \/ \E ok \in BOOLEAN : open_file(ok)
  \/ main_read_async
  \/ \E seed \in Seeds : deliver(seed)
  \/ \E block \in Blocks : create_fft_begin(block)
  \/ create_fft_bin
  \/ create_fft_end
  \/ callback_check
  \/ callback_usleep
  \/ callback_read_async
  \/ do_exit_cancel
  \/ \E crash \in BOOLEAN : do_exit_pclose(crash)
  \/ \E crash \in BOOLEAN : do_exit_fclose(crash)
  \/ do_exit_exit
  \/ sig_handler

Spec == Init /\ [][Next]_vars

\* ------------------------------------------------------------------ claims
\* main or the callback is inside do_exit (entered from the callback).
DoExitPcs == {"de_cancel", "de_pclose", "de_fclose", "de_exit"}
CallbackExits == pc \in DoExitPcs

\* The options are those of the command line from register_signals on.
Parsed == pc # "parse_args"

\* C1: in rtl_map's continuous mode with a batch limit K >= 1 the
\* transform is never started more than K times, at most K batch requests
\* are issued (the first and K-1 re-issues), the callback enters do_exit
\* exactly when K transforms have run, and after the K-th transform the
\* callback goes nowhere but into do_exit.
C1_BoundedContinuous ==
  (variant = "rtl_map" /\ Parsed /\ _cont_read # 0 /\ _num_read >= 1) =>
    /\ fft_calls <= _num_read
    /\ Len(requests) <= _num_read
    /\ CallbackExits =>
         /\ fft_calls = _num_read
         /\ transforms = _num_read
         /\ Len(requests) = _num_read
    /\ transforms = _num_read => (pc = "cb_check" \/ CallbackExits)

C1_Witness ==
  /\ variant = "rtl_map"
  /\ _cont_read # 0
  /\ _num_read = 2
  /\ sig_count = 0
  /\ halt = "exited"
  /\ exit_by = "callback"
  /\ transforms = 2
  /\ Len(requests) = 2

\* C2: in single-shot mode, whatever the batch limit, at most one batch
\* request is issued and at most one transform is started; the callback
\* enters do_exit with exactly one request issued and one batch transformed,
\* and after that transform it goes nowhere but into do_exit.
C2_SingleShot ==
  (Parsed /\ _cont_read = 0) =>
    /\ Len(requests) <= 1
    /\ fft_calls <= 1
    /\ CallbackExits => (Len(requests) = 1 /\ fft_calls = 1 /\ transforms = 1)
    /\ transforms = 1 => (pc = "cb_check" \/ CallbackExits)

C2_Witness ==
  /\ variant = "rtl_map"
  /\ _cont_read = 0
  /\ _num_read = 2
  /\ sig_count = 0
  /\ halt = "exited"
  /\ exit_by = "callback"
  /\ exit_status = 0
  /\ transforms = 1
  /\ Len(requests) = 1

\* The data lines of the plot channel, in order.
IsData(l) == l.kind = "data"
PlotData == SelectSeq(plot_out, IsData)

\* The three streams of bin lines.
BinStreams == {file_out, stdout_out, PlotData}

C4_ShutdownOnce ==
  /\ cancels <= 1
  /\ plot_closes <= 1
  /\ file_closes <= 1

\* C5: once a pre-flight failure has happened the process has exited with
\* status 1 and no batch request has been or will be issued.
C5_PreflightFailureExits ==
  preflight_fail # {} =>
    /\ halt = "exited"
    /\ exit_status = 1
    /\ requests = <<>>

\* C6: with a file sink configured the sink holds N lines for every batch
\* processed, plus the lines of the batch in progress, and nothing else.
C6_FileLineCount ==
  LET lines == Len(file_out) + Len(stdout_out)
  IN  IF _write_file # 0
        THEN lines = (transforms * n_read) + (IF pc = "fft_loop" THEN bin_i ELSE 0)
        ELSE lines = 0

C6_Witness ==
  /\ _write_file # 0
  /\ transforms = 2
  /\ pc = "cb_check"
  /\ Len(file_out) = 2 * n_read

\* Lines of one batch on the plot channel: directive, N data lines,
\* end-of-data, flush.
CycleLen == n_read + 3

\* The kind of the p-th line of the plot channel.
ExpectedKind(p) ==
  IF p <= Len(GnuplotSetup) THEN "set"
  ELSE LET q == (p - Len(GnuplotSetup) - 1) % CycleLen
       IN  IF q = 0 THEN "plot"
           ELSE IF q <= n_read THEN "data"
           ELSE IF q = n_read + 1 THEN "e"
           ELSE "flush"

\* C7: the plot channel carries, after the set-up lines, one cycle per
\* batch of a plot directive, N data lines, the end-of-data token and a
\* flush, in this order; a batch that has been processed has its whole
\* cycle on the channel before anything of the next batch.
C7_PlotProtocol ==
  /\ \A p \in 1..Len(plot_out) : plot_out[p].kind = ExpectedKind(p)
  /\ gnuplotPipe = "NULL" => plot_out = <<>>
  /\ gnuplotPipe # "NULL" =>
       Len(plot_out) = Len(GnuplotSetup) + (transforms * CycleLen)
                         + (IF pc = "fft_loop" THEN 1 + bin_i ELSE 0)

C7_Witness ==
  /\ _use_gnuplot # 0
  /\ transforms = 2
  /\ Len(plot_out) = Len(GnuplotSetup) + (2 * CycleLen)
  /\ plot_out[Len(plot_out)].kind = "flush"

\* do_exit ran to its exit(0).
ShutdownDone == halt = "exited" /\ exit_by \in {"callback", "signal"}

\* C8: with the file name "-" the bin lines go to standard output and
\* do_exit never closes it; with a real file that was opened, the bin lines
\* go to the file and do_exit has closed it when it exits.
C8_StdoutSentinel ==
  /\ stdout_closes = 0
  /\ _filename = "-" => file_out = <<>>
  /\ (_filename = "-" /\ pc = "cb_check") => Len(stdout_out) = transforms * n_read
  /\ _filename # "-" => stdout_out = <<>>
  /\ (ShutdownDone /\ _filename \notin {"NULL", "-"} /\ file # "NULL") =>
       (file = "closed" /\ file_closes >= 1)

C8_Witness ==
  /\ _filename = "-"
  /\ ShutdownDone
  /\ file = "stdout"
  /\ Len(stdout_out) = n_read

\* C9: every value emitted to the file sink or the plot sink is finite.
C9_FiniteValues ==
  \A st \in BinStreams : \A p \in 1..Len(st) : st[p].val = "finite"

\* C10: the fill loop writes every element of in, element i from bytes 2i
\* and 2i+1 of the batch.
C10_Deinterleave ==
  in # <<>> =>
    \A k \in 0..(n_read - 1) :
      /\ k \in in_written
      /\ in[k] = <<Scale * buf[2 * k] - Offset, Scale * buf[(2 * k) + 1] - Offset>>

\* C11: every rtlsdr_read_async call asks for 2 * n_read bytes, and the
\* batch that create_fft works on has 2 * n_read bytes.
C11_RequestsTwoN ==
  /\ \A p \in 1..Len(requests) : requests[p] = 2 * n_read
  /\ pc \in {"create_fft", "fft_loop"} => Cardinality(DOMAIN buf) = 2 * n_read

\* C12: do_exit cancels only on an opened device, closes the plot pipe only
\* after popen has opened it, and closes the file only after fopen has
\* opened it, wherever a signal finds main.
C12_ShutdownOnlyOpened ==
  /\ cancels_null = 0
  /\ "pclose_null" \notin ub
  /\ "fclose_null" \notin ub

\* C13: the callback finishes create_fft (transform and fan-out) before it
\* sleeps, sleeps before it issues the next rtlsdr_read_async, and issues
\* it only on the continuing branch; a request is never issued while an
\* earlier one still waits for its batch to be processed, and create_fft
\* never starts while another call of it is in progress.
C13_DepthOne ==
  /\ [](/\ fft_calls \in {transforms, transforms + 1}
        /\ Len(requests) <= transforms + 1
        /\ in # <<>> => (fft_calls = transforms + 1 /\ pc = "fft_loop")
        /\ pc \in {"cb_usleep", "cb_read_async"} =>
             /\ fft_calls = transforms
             /\ in = <<>> /\ out = <<>>
             /\ _write_file # 0 =>
                  Len(file_out) + Len(stdout_out) = transforms * n_read
             /\ gnuplotPipe # "NULL" =>
                  Len(plot_out) = Len(GnuplotSetup) + (transforms * CycleLen))
  /\ [][/\ (pc' = "cb_usleep" /\ pc # "cb_usleep") =>
             (pc = "cb_check" /\ _cont_read # 0)
        /\ (pc' = "cb_read_async" /\ pc # "cb_read_async") =>
             (pc = "cb_usleep" /\ read_count < _num_read)
        /\ (requests # <<>> /\ requests' # requests) =>
             /\ pc = "cb_read_async"
             /\ Len(requests') = Len(requests) + 1
             /\ transforms = Len(requests)
        /\ fft_calls' # fft_calls =>
             (fft_calls = transforms /\ in = <<>> /\ fft_calls' = fft_calls + 1)
       ]_vars

C13_Witness ==
  /\ variant = "rtl_map"
  /\ _cont_read # 0
  /\ Len(requests) = 2
  /\ transforms = 1
  /\ fft_calls = 2
  /\ pc = "fft_loop"
  /\ bin_i = 1

\* What the int assignment cuts off from the square of h (h in
\* hundredths), in units of 1/10000.
SquareLost(h) ==
  LET a == Abs(h) \div Scale
      b == Abs(h) % Scale
  IN  (2 * a * b * Scale + b * b) % (Scale * Scale)

\* C14: for every bin the radicand of amp is re^2 + im^2 of that output,
\* with nothing cut off from either square, and fits an int.
C14_ExactMagnitude ==
  (pc = "fft_loop" /\ bin_i >= 1) =>
    LET z == out[bin_i - 1]
    IN  /\ SquareLost(z[1]) = 0
        /\ SquareLost(z[2]) = 0
        /\ amp.sq = out_r + out_i
        /\ out_r + out_i <= INT_MAX

\* C15: in rtl_map's continuous mode with a batch limit K <= 0 the limit
\* is looked at only after create_fft has returned: one request, one
\* transform with its whole fan-out, then do_exit; the callback never
\* reaches the pacing branch and never enters do_exit with no batch done.
C15_NonPositiveLimit ==
  (variant = "rtl_map" /\ Parsed /\ _cont_read # 0 /\ _num_read <= 0) =>
    /\ fft_calls <= 1
    /\ Len(requests) <= 1
    /\ pc \notin {"cb_usleep", "cb_read_async"}
    /\ pc \in {"create_fft", "fft_loop"} => read_count = 0
    /\ pc = "cb_check" => (transforms = 1 /\ read_count = 1)
    /\ CallbackExits =>
         /\ fft_calls = 1
         /\ transforms = 1
         /\ _write_file # 0 => Len(file_out) + Len(stdout_out) = n_read
         /\ _use_gnuplot # 0 => Len(plot_out) = Len(GnuplotSetup) + CycleLen

C15_Witness ==
  /\ variant = "rtl_map"
  /\ _cont_read # 0
  /\ _num_read = 0
  /\ _write_file # 0
  /\ sig_count = 0
  /\ halt = "exited"
  /\ exit_by = "callback"
  /\ transforms = 1
  /\ Len(file_out) + Len(stdout_out) = n_read

====
